---- MODULE Spec2Model ----
(***************************************************************************)
(* ClauseCopilot: the segmenter (core/chunking.py), the structured         *)
(* response extractor and the resilient generation invoker                 *)
(* (core/agents.py).                                                       *)
(*                                                                         *)
(* A text is a sequence of characters, each character a one-character      *)
(* string; a segment is a record [section, text] of two texts.             *)
(***************************************************************************)
EXTENDS Integers, Sequences, FiniteSets, TLC

VARIABLES
    \* chunk_text (core/chunking.py)
    text,           \* the document handed to chunk_text
    max_chars,      \* its size bound
    lines,          \* the stripped lines of the document
    li,             \* index of the next line the for loop reads
    current_lines,  \* the accumulating buffer
    current_title,  \* the current section label, None when unset
    chunks,         \* the chunks emitted by the scan
    ci,             \* index of the next chunk the post-pass reads
    result,         \* the list chunk_text returns
    cpc,            \* position in chunk_text
    nsplit,         \* history: number of size-triggered splits so far
    \* _extract_json_obj (core/agents.py) and its caller in app.py
    raw,            \* the text handed to _extract_json_obj
    embedded,       \* history: the object text embedded in raw, if any
    ext,            \* what it did: [ok, val]
    epc,            \* position of the extraction
    \* run_risk_review (core/agents.py)
    attempt_number, \* the retry decorator's attempt counter
    raw_output,     \* the local raw_output
    calls,          \* history: the generation calls issued, in order
    outcome,        \* the text or error delivered to the caller
    rpc,            \* position in run_risk_review
    \* retrieve_evidence_for_risk (core/retrieval.py)
    r_chunks,       \* the texts of the chunks handed in
    top_k_per_query,
    r_max_chars,    \* its max_chars
    chunk_embs,     \* the embedding of every chunk text
    qi,             \* index of the next query of RISK_QUERIES
    scores,         \* the scores of the last query
    top_indices,    \* the indices the last query selected
    evidence_indices,
    bundle,         \* the joined evidence before the cap is applied
    r_out,          \* the text it returns (its local out)
    rtpc,           \* position in retrieve_evidence_for_risk
    \* upsert_chunks (core/vectorstore.py) on the "contracts" collection
    collection,     \* the records of the vector index, one per id
    indexed,        \* history: the chunks last indexed under each identity
    \* _parse_ollama_response_body (core/agents.py) on a response body
    resp_text,      \* the response body (resp.text)
    fragments,      \* history: the response fields the body was built from
    parsed,         \* what the parse returned or raised
    bpc             \* position of the parse

chunkVars == <<text, max_chars, lines, li, current_lines, current_title,
               chunks, ci, result, cpc, nsplit>>
extractVars == <<raw, embedded, ext, epc>>
reviewVars == <<attempt_number, raw_output, calls, outcome, rpc>>
retrievalVars == <<r_chunks, top_k_per_query, r_max_chars, chunk_embs, qi,
                   scores, top_indices, evidence_indices, bundle, r_out, rtpc>>
indexVars == <<collection, indexed>>
bodyVars == <<resp_text, fragments, parsed, bpc>>
vars == <<chunkVars, extractVars, reviewVars, retrievalVars, indexVars,
          bodyVars>>

(***************************************************************************)
(* Characters and Python's string primitives.                              *)
(***************************************************************************)
NL == "\n"
DQ == "\""
BS == "\\"
\* The grave accent cannot be written inside a string literal; the fence
\* character is this atom.
BT == "GRAVE"

\* The characters str.strip() removes and the regex class \s matches.
Whitespace == {" ", "\t", NL, "\r"}
\* The line boundaries of str.splitlines().
LineBreaks == {NL, "\r"}
\* [A-Z] and \d.
Upper == {"A", "B", "C", "D", "E", "F", "G", "H", "I", "J", "K", "L", "M",
          "N", "O", "P", "Q", "R", "S", "T", "U", "V", "W", "X", "Y", "Z"}
Digit == {"0", "1", "2", "3", "4", "5", "6", "7", "8", "9"}
\* The character of a one-digit number.
Digit_of(i) == <<"0", "1", "2", "3", "4", "5", "6", "7", "8", "9">>[i + 1]
\* [.!?]
SentenceEnd == {".", "!", "?"}

None == <<>>
UNKNOWN == <<"U", "N", "K", "N", "O", "W", "N">>
CONT == <<" ", "(", "c", "o", "n", "t", ".", ")">>
SECTION == <<"S", "E", "C", "T", "I", "O", "N">>

MinOf(S) == CHOOSE x \in S : \A y \in S : x <= y
MaxOf(S) == CHOOSE x \in S : \A y \in S : x >= y

\* s[i:] and s[:j] of Python, on 1-based sequences.
From(s, i) == SubSeq(s, i, Len(s))
Upto(s, j) == SubSeq(s, 1, j)

\* The first index >= i of s that is not in class S, Len(s)+1 when none.
SpanEnd(s, i, S) ==
    LET stops == {j \in i..Len(s) : s[j] \notin S}
    IN  IF stops = {} THEN Len(s) + 1 ELSE MinOf(stops)

\* Whether the word w stands in s at index i.
MatchAt(s, i, w) ==
    /\ i >= 1
    /\ i + Len(w) - 1 <= Len(s)
    /\ \A k \in 1..Len(w) : s[i + k - 1] = w[k]

strip(s) ==
    LET N == {i \in 1..Len(s) : s[i] \notin Whitespace}
    IN  IF N = {} THEN <<>> ELSE SubSeq(s, MinOf(N), MaxOf(N))

lstrip(s) == From(s, SpanEnd(s, 1, Whitespace))

RECURSIVE splitlines(_)
splitlines(s) ==
    IF s = <<>> THEN <<>>
    ELSE LET B == {i \in 1..Len(s) : s[i] \in LineBreaks}
         IN  IF B = {} THEN <<s>>
             ELSE LET b == MinOf(B)
                      \* "\r\n" is one boundary
                      n == IF s[b] = "\r" /\ b < Len(s) /\ s[b + 1] = NL
                           THEN b + 2 ELSE b + 1
                  IN  <<Upto(s, b - 1)>> \o splitlines(From(s, n))

RECURSIVE join(_, _)
join(sep, ls) ==
    IF ls = <<>> THEN <<>>
    ELSE IF Len(ls) = 1 THEN ls[1]
    ELSE ls[1] \o sep \o join(sep, Tail(ls))

RECURSIVE SumLen(_)
SumLen(ls) == IF ls = <<>> THEN 0 ELSE Len(ls[1]) + SumLen(Tail(ls))

(***************************************************************************)
(* core/chunking.py                                                        *)
(***************************************************************************)
DEFAULT_MAX_CHARS == 1800
HeadingMaxLen == 80

\* The end of (\.\d+)* started at index i.
RECURSIVE OutlineEnd(_, _)
OutlineEnd(s, i) ==
    IF i <= Len(s) /\ s[i] = "." /\ SpanEnd(s, i + 1, Digit) > i + 1
    THEN OutlineEnd(s, SpanEnd(s, i + 1, Digit))
    ELSE i

\* SECTION_RE.match(ln):  ^\s*((\d+(\.\d+)*)\s+|SECTION\s+\d+|[A-Z][A-Z\s]{4,})
SECTION_RE_match(ln) ==
    LET p  == SpanEnd(ln, 1, Whitespace)
        d  == SpanEnd(ln, p, Digit)
        e  == OutlineEnd(ln, d)
        w  == SpanEnd(ln, p + Len(SECTION), Whitespace)
    IN  \/ d > p /\ e <= Len(ln) /\ ln[e] \in Whitespace
        \/ /\ MatchAt(ln, p, SECTION)
           /\ w > p + Len(SECTION)
           /\ w <= Len(ln) /\ ln[w] \in Digit
        \/ /\ p <= Len(ln) /\ ln[p] \in Upper
           /\ SpanEnd(ln, p + 1, Upper \cup Whitespace) - (p + 1) >= 4

\* A hard-limit cut that drops the character at the cut.
split_at_sentence_dropping(t, max_len) ==
    IF Len(t) <= max_len THEN <<t, <<>>>>
    ELSE LET window == Upto(t, max_len + 1)
             M == {i \in 1..(Len(window) - 1) :
                      window[i] \in SentenceEnd /\ window[i + 1] \in Whitespace}
         IN  IF M # {}
             THEN LET end == SpanEnd(window, MaxOf(M) + 1, Whitespace) - 1
                  IN  <<strip(Upto(t, end)), strip(From(t, end + 1))>>
             ELSE <<strip(Upto(t, max_len)), strip(From(t, max_len + 2))>>

\* A sentence cut whose first piece keeps its trailing whitespace.
split_at_sentence_unstripped(t, max_len) ==
    IF Len(t) <= max_len THEN <<t, <<>>>>
    ELSE LET window == Upto(t, max_len + 1)
             M == {i \in 1..(Len(window) - 1) :
                      window[i] \in SentenceEnd /\ window[i + 1] \in Whitespace}
         IN  IF M # {}
             THEN LET end == SpanEnd(window, MaxOf(M) + 1, Whitespace) - 1
                  IN  <<Upto(t, end), strip(From(t, end + 1))>>
             ELSE <<strip(Upto(t, max_len)), strip(From(t, max_len + 1))>>

\* A hard-limit cut one character before the limit.
split_at_sentence_cut_short(t, max_len) ==
    IF Len(t) <= max_len THEN <<t, <<>>>>
    ELSE LET window == Upto(t, max_len + 1)
             M == {i \in 1..(Len(window) - 1) :
                      window[i] \in SentenceEnd /\ window[i + 1] \in Whitespace}
         IN  IF M # {}
             THEN LET end == SpanEnd(window, MaxOf(M) + 1, Whitespace) - 1
                  IN  <<strip(Upto(t, end)), strip(From(t, end + 1))>>
             ELSE <<strip(Upto(t, max_len - 1)), strip(From(t, max_len))>>

\* _split_at_sentence(t, max_len) -> <<before, after>>
split_at_sentence(t, max_len) ==
    IF Len(t) <= max_len THEN <<t, <<>>>>
    ELSE LET window == Upto(t, max_len + 1)
             \* the matches of [.!?]\s+ in the window; the last one wins
             M == {i \in 1..(Len(window) - 1) :
                      window[i] \in SentenceEnd /\ window[i + 1] \in Whitespace}
         IN  IF M # {}
             THEN LET end == SpanEnd(window, MaxOf(M) + 1, Whitespace) - 1
                  IN  <<strip(Upto(t, end)), strip(From(t, end + 1))>>
             ELSE <<strip(Upto(t, max_len)), strip(From(t, max_len + 1))>>

\* re.split(r"\n\s*\n", s)
RECURSIVE split_paragraphs(_)
split_paragraphs(s) ==
    LET \* the last "\n" of the whitespace run that follows index i
        close(i) == {j \in (i + 1)..(SpanEnd(s, i + 1, Whitespace) - 1) : s[j] = NL}
        starts == {i \in 1..Len(s) : s[i] = NL /\ close(i) # {}}
    IN  IF starts = {} THEN <<s>>
        ELSE LET i == MinOf(starts)
                 j == MaxOf(close(i))
             IN  <<Upto(s, i - 1)>> \o split_paragraphs(From(s, j + 1))

\* A split loop that gives every piece the section's own title.
RECURSIVE split_part_unannotated(_, _, _, _)
split_part_unannotated(part, section, maxc, out) ==
    IF Len(part) > maxc
    THEN LET ba == split_at_sentence(part, maxc)
         IN  split_part_unannotated(ba[2], section, maxc,
                                    Append(out, [section |-> section,
                                                 text |-> ba[1]]))
    ELSE IF part # <<>>
    THEN Append(out, [section |-> section, text |-> part])
    ELSE out

\* The while loop of _split_large_chunk on one paragraph, then its tail.
RECURSIVE split_part(_, _, _, _)
split_part(part, section, maxc, out) ==
    LET title == IF out = <<>> THEN section ELSE section \o CONT
    IN  IF Len(part) > maxc
        THEN LET ba == split_at_sentence(part, maxc)
             IN  split_part(ba[2], section, maxc,
                            Append(out, [section |-> title, text |-> ba[1]]))
        ELSE IF part # <<>>
        THEN Append(out, [section |-> title, text |-> part])
        ELSE out

\* The for loop of _split_large_chunk over the paragraphs.
RECURSIVE split_parts(_, _, _, _)
split_parts(parts, section, maxc, out) ==
    IF parts = <<>> THEN out
    ELSE LET part == strip(parts[1])
         IN  IF part = <<>>
             THEN split_parts(Tail(parts), section, maxc, out)
             ELSE split_parts(Tail(parts), section, maxc,
                              split_part(part, section, maxc, out))

\* _split_large_chunk(chunk, max_chars)
split_large_chunk(chunk, maxc) ==
    LET section == IF chunk.section = None THEN UNKNOWN ELSE chunk.section
        out == split_parts(split_paragraphs(chunk.text), section, maxc, <<>>)
    IN  IF Len(chunk.text) <= maxc THEN <<chunk>>
        ELSE IF out # <<>> THEN out ELSE <<chunk>>

\* A flush that joins the buffered lines with a space.
flush_space_joined(cl, ct, ch) ==
    LET chunk == strip(join(<<" ">>, cl))
    IN  IF cl # <<>> /\ chunk # <<>>
        THEN Append(ch, [section |-> IF ct = None THEN UNKNOWN ELSE ct,
                         text |-> chunk])
        ELSE ch

\* flush(): the chunks after the buffer cl is flushed under the title ct.
flush(cl, ct, ch) ==
    LET chunk == strip(join(<<NL>>, cl))
    IN  IF cl # <<>> /\ chunk # <<>>
        THEN Append(ch, [section |-> IF ct = None THEN UNKNOWN ELSE ct,
                         text |-> chunk])
        ELSE ch

\* lines = [ln.strip() for ln in text.splitlines()]
ChunkStart ==
    /\ cpc = "start"
    /\ lines' = [i \in 1..Len(splitlines(text)) |-> strip(splitlines(text)[i])]
    /\ li' = 1
    /\ cpc' = "scan"
    /\ UNCHANGED <<text, max_chars, current_lines, current_title, chunks, ci,
                   result, nsplit>>
    /\ UNCHANGED <<extractVars, reviewVars, retrievalVars, indexVars, bodyVars>>

\* One iteration of "for ln in lines", up to the size loop.
ScanLine ==
    /\ cpc = "scan"
    /\ li <= Len(lines)
    /\ LET ln == lines[li]
       IN  IF ln = <<>>
           THEN /\ cpc' = "scan"
                /\ UNCHANGED <<current_lines, current_title, chunks>>
           ELSE /\ cpc' = "size"
                /\ IF SECTION_RE_match(ln) /\ Len(ln) <= HeadingMaxLen
                   THEN /\ chunks' = flush(current_lines, current_title, chunks)
                        /\ current_title' = ln
                        /\ current_lines' = <<ln>>
                   ELSE /\ current_lines' = Append(current_lines, ln)
                        /\ UNCHANGED <<current_title, chunks>>
    /\ li' = li + 1
    /\ UNCHANGED <<text, max_chars, lines, ci, result, nsplit>>
    /\ UNCHANGED <<extractVars, reviewVars, retrievalVars, indexVars, bodyVars>>

\* One iteration of "while sum(len(x) for x in current_lines) > max_chars".
SizeSplit ==
    /\ cpc = "size"
    /\ SumLen(current_lines) > max_chars
    /\ LET ba == split_at_sentence(join(<<NL>>, current_lines), max_chars)
           before == ba[1]
           after == ba[2]
       IN  /\ chunks' = IF before # <<>>
                        THEN Append(chunks,
                                    [section |-> IF current_title = None
                                                 THEN UNKNOWN ELSE current_title,
                                     text |-> before])
                        ELSE chunks
           /\ IF after = <<>>
              THEN /\ current_lines' = <<>>
                   /\ current_title' = None
                   /\ cpc' = "scan"
              ELSE /\ current_lines' = <<after>>
                   /\ UNCHANGED <<current_title, cpc>>
    /\ nsplit' = nsplit + 1
    /\ UNCHANGED <<text, max_chars, lines, li, ci, result>>
    /\ UNCHANGED <<extractVars, reviewVars, retrievalVars, indexVars, bodyVars>>

\* The size loop's exit.
SizeDone ==
    /\ cpc = "size"
    /\ SumLen(current_lines) <= max_chars
    /\ cpc' = "scan"
    /\ UNCHANGED <<text, max_chars, lines, li, current_lines, current_title,
                   chunks, ci, result, nsplit>>
    /\ UNCHANGED <<extractVars, reviewVars, retrievalVars, indexVars, bodyVars>>

\* The flush() after the for loop.
EndFlush ==
    /\ cpc = "scan"
    /\ li > Len(lines)
    /\ chunks' = flush(current_lines, current_title, chunks)
    /\ current_lines' = <<>>
    /\ current_title' = None
    /\ ci' = 1
    /\ cpc' = "post"
    /\ UNCHANGED <<text, max_chars, lines, li, result, nsplit>>
    /\ UNCHANGED <<extractVars, reviewVars, retrievalVars, indexVars, bodyVars>>

\* One iteration of the post-pass "for c in chunks".
PostPass ==
    /\ cpc = "post"
    /\ ci <= Len(chunks)
    /\ LET c == chunks[ci]
       IN  IF Len(c.text) > max_chars
           THEN /\ result' = result \o split_large_chunk(c, max_chars)
                /\ nsplit' = nsplit + 1
           ELSE /\ result' = Append(result, c)
                /\ UNCHANGED nsplit
    /\ ci' = ci + 1
    /\ UNCHANGED <<text, max_chars, lines, li, current_lines, current_title,
                   chunks, cpc>>
    /\ UNCHANGED <<extractVars, reviewVars, retrievalVars, indexVars, bodyVars>>

\* return result
ChunkReturn ==
    /\ cpc = "post"
    /\ ci > Len(chunks)
    /\ cpc' = "done"
    /\ UNCHANGED <<text, max_chars, lines, li, current_lines, current_title,
                   chunks, ci, result, nsplit>>
    /\ UNCHANGED <<extractVars, reviewVars, retrievalVars, indexVars, bodyVars>>

(***************************************************************************)
(* json.loads, as core/agents.py uses it.  A JSON value is a record         *)
(* [t, s, m]: t its kind ("obj", "arr", "str", "num", "true", "false",      *)
(* "null", "nan", "inf", "-inf"), s the characters of a string or of a      *)
(* number literal, m the members [k, v] of an object (k the key) or of an   *)
(* array (k empty), in order.  The texts of the model hold no \u escape.    *)
(***************************************************************************)
JsonWS == {" ", "\t", NL, "\r"}
\* The control characters a strict JSON string may not hold unescaped.
Control == {"\t", NL, "\r"}
\* The one-character escapes of a JSON string.
Escapable == {DQ, BS, "/", "b", "f", "n", "r", "t"}
Unescape(c) ==
    CASE c = "n" -> NL
      [] c = "t" -> "\t"
      [] c = "r" -> "\r"
      [] c = "b" -> "BACKSPACE"
      [] c = "f" -> "\f"
      [] OTHER -> c

MkVal(t, s, m) == [t |-> t, s |-> s, m |-> m]
NoVal == MkVal("none", <<>>, <<>>)
Fail == [ok |-> FALSE, pos |-> 0, val |-> NoVal]
Ok(pos, val) == [ok |-> TRUE, pos |-> pos, val |-> val]

\* dict[k] = v: a repeated key keeps its place and takes the last value.
DictSet(m, k, v) ==
    IF \E i \in 1..Len(m) : m[i].k = k
    THEN [i \in 1..Len(m) |-> IF m[i].k = k THEN [k |-> k, v |-> v] ELSE m[i]]
    ELSE Append(m, [k |-> k, v |-> v])

\* py_scanstring from index i, the character after the opening quote.
RECURSIVE scanstring(_, _, _)
scanstring(s, i, acc) ==
    IF i > Len(s) THEN Fail
    ELSE IF s[i] = DQ THEN Ok(i + 1, MkVal("str", acc, <<>>))
    ELSE IF s[i] = BS
    THEN IF i + 1 <= Len(s) /\ s[i + 1] \in Escapable
         THEN scanstring(s, i + 2, Append(acc, Unescape(s[i + 1])))
         ELSE Fail
    ELSE IF s[i] \in Control THEN Fail
    ELSE scanstring(s, i + 1, Append(acc, s[i]))

\* NUMBER_RE.match at index i:  (-?(?:0|[1-9]\d*))(\.\d+)?([eE][-+]?\d+)?
\* The end of the integer part that starts at a, 0 when there is none.
int_end(s, a) ==
    IF a > Len(s) \/ s[a] \notin Digit THEN 0
    ELSE IF s[a] = "0" THEN a + 1
    ELSE SpanEnd(s, a, Digit)

\* The end of the optional fraction at e.
frac_end(s, e) ==
    IF e <= Len(s) /\ s[e] = "." /\ SpanEnd(s, e + 1, Digit) > e + 1
    THEN SpanEnd(s, e + 1, Digit)
    ELSE e

\* The first digit of an exponent whose letter is at f.
exp_digits(s, f) ==
    IF f + 1 <= Len(s) /\ s[f + 1] \in {"+", "-"} THEN f + 2 ELSE f + 1

\* The end of the optional exponent at f.
exp_end(s, f) ==
    IF f <= Len(s) /\ s[f] \in {"e", "E"}
       /\ SpanEnd(s, exp_digits(s, f), Digit) > exp_digits(s, f)
    THEN SpanEnd(s, exp_digits(s, f), Digit)
    ELSE f

number_to(s, i, end) == Ok(end, MkVal("num", SubSeq(s, i, end - 1), <<>>))

number_from(s, i, e) ==
    IF e = 0 THEN Fail ELSE number_to(s, i, exp_end(s, frac_end(s, e)))

scannumber(s, i) ==
    number_from(s, i, int_end(s, IF i <= Len(s) /\ s[i] = "-" THEN i + 1 ELSE i))

RECURSIVE scan_once(_, _)
RECURSIVE object_pairs(_, _, _)
RECURSIVE array_items(_, _, _)

\* JSONObject's loop after a value: the "}" or the "," at e.
object_next(s, e, pairs) ==
    IF e > Len(s) THEN Fail
    ELSE IF s[e] = "}" THEN Ok(e + 1, MkVal("obj", <<>>, pairs))
    ELSE IF s[e] # "," THEN Fail
    ELSE IF SpanEnd(s, e + 1, JsonWS) <= Len(s)
            /\ s[SpanEnd(s, e + 1, JsonWS)] = DQ
    THEN object_pairs(s, SpanEnd(s, e + 1, JsonWS), pairs)
    ELSE Fail

\* JSONObject's loop once the value v of key is scanned.
object_value(s, pairs, key, v) ==
    IF ~v.ok THEN Fail
    ELSE object_next(s, SpanEnd(s, v.pos, JsonWS),
                     DictSet(pairs, key.val.s, v.val))

\* JSONObject's loop after a key: the ":" at c, then the value.
object_colon(s, pairs, key, c) ==
    IF c > Len(s) \/ s[c] # ":" THEN Fail
    ELSE object_value(s, pairs, key, scan_once(s, SpanEnd(s, c + 1, JsonWS)))

object_key(s, pairs, key) ==
    IF ~key.ok THEN Fail
    ELSE object_colon(s, pairs, key, SpanEnd(s, key.pos, JsonWS))

\* JSONObject's loop, at the opening quote q of a key.
object_pairs(s, q, pairs) == object_key(s, pairs, scanstring(s, q + 1, <<>>))

\* JSONArray's loop after an item: the "]" or the "," at e.
array_next(s, e, items) ==
    IF e > Len(s) THEN Fail
    ELSE IF s[e] = "]" THEN Ok(e + 1, MkVal("arr", <<>>, items))
    ELSE IF s[e] # "," THEN Fail
    ELSE array_items(s, SpanEnd(s, e + 1, JsonWS), items)

\* JSONArray's loop once the item v is scanned.
array_value(s, items, v) ==
    IF ~v.ok THEN Fail
    ELSE array_next(s, SpanEnd(s, v.pos, JsonWS),
                    Append(items, [k |-> <<>>, v |-> v.val]))

\* JSONArray's loop, at the first character i of an item.
array_items(s, i, items) == array_value(s, items, scan_once(s, i))

\* JSONObject after "{", at the first character n that is not whitespace.
object_open(s, n) ==
    IF n > Len(s) THEN Fail
    ELSE IF s[n] = "}" THEN Ok(n + 1, MkVal("obj", <<>>, <<>>))
    ELSE IF s[n] = DQ THEN object_pairs(s, n, <<>>)
    ELSE Fail

\* JSONArray after "[", at the first character n that is not whitespace.
array_open(s, n) ==
    IF n > Len(s) THEN Fail
    ELSE IF s[n] = "]" THEN Ok(n + 1, MkVal("arr", <<>>, <<>>))
    ELSE array_items(s, n, <<>>)

\* scan_once(s, idx): one JSON value starting exactly at index i.
scan_once(s, i) ==
    IF i > Len(s) THEN Fail
    ELSE IF s[i] = DQ THEN scanstring(s, i + 1, <<>>)
    ELSE IF s[i] = "{" THEN object_open(s, SpanEnd(s, i + 1, JsonWS))
    ELSE IF s[i] = "[" THEN array_open(s, SpanEnd(s, i + 1, JsonWS))
    ELSE IF MatchAt(s, i, <<"n", "u", "l", "l">>)
    THEN Ok(i + 4, MkVal("null", <<>>, <<>>))
    ELSE IF MatchAt(s, i, <<"t", "r", "u", "e">>)
    THEN Ok(i + 4, MkVal("true", <<>>, <<>>))
    ELSE IF MatchAt(s, i, <<"f", "a", "l", "s", "e">>)
    THEN Ok(i + 5, MkVal("false", <<>>, <<>>))
    ELSE IF scannumber(s, i).ok THEN scannumber(s, i)
    ELSE IF MatchAt(s, i, <<"N", "a", "N">>)
    THEN Ok(i + 3, MkVal("nan", <<>>, <<>>))
    ELSE IF MatchAt(s, i, <<"I", "n", "f", "i", "n", "i", "t", "y">>)
    THEN Ok(i + 8, MkVal("inf", <<>>, <<>>))
    ELSE IF MatchAt(s, i, <<"-", "I", "n", "f", "i", "n", "i", "t", "y">>)
    THEN Ok(i + 9, MkVal("-inf", <<>>, <<>>))
    ELSE Fail

\* The end of the document: whitespace only after the value r.
whole_document(s, r) ==
    IF r.ok /\ SpanEnd(s, r.pos, JsonWS) = Len(s) + 1 THEN r ELSE Fail

\* json.loads(s): one value, whitespace around it, nothing else.
json_loads(s) == whole_document(s, scan_once(s, SpanEnd(s, 1, JsonWS)))

\* Python's == on two parsed values.  Numbers are compared by their
\* literals; the model's numbers are plain integer literals.
RECURSIVE DeepEq(_, _)
DeepEq(a, b) ==
    /\ a.t = b.t
    /\ a.s = b.s
    /\ Len(a.m) = Len(b.m)
    /\ IF a.t = "obj"
       THEN \A i \in 1..Len(a.m) : \E j \in 1..Len(b.m) :
               a.m[i].k = b.m[j].k /\ DeepEq(a.m[i].v, b.m[j].v)
       ELSE \A i \in 1..Len(a.m) : DeepEq(a.m[i].v, b.m[i].v)

(***************************************************************************)
(* core/agents.py: _extract_json_obj                                       *)
(***************************************************************************)
FENCE_OPEN == <<BT, BT, BT, "j", "s", "o", "n">>
FENCE_CLOSE == <<BT, BT, BT>>
NoMatch == [found |-> FALSE, group |-> <<>>]

\* re.search(r"```json\s*(\{.*?\})\s*```", s, flags=re.DOTALL): group(1)
fence_search(s) ==
    LET open(i) == SpanEnd(s, i + Len(FENCE_OPEN), Whitespace)
        closers(i) == {q \in (open(i) + 1)..Len(s) :
                          /\ s[q] = "}"
                          /\ MatchAt(s, SpanEnd(s, q + 1, Whitespace), FENCE_CLOSE)}
        starts == {i \in 1..Len(s) :
                      /\ MatchAt(s, i, FENCE_OPEN)
                      /\ open(i) <= Len(s) /\ s[open(i)] = "{"
                      /\ closers(i) # {}}
    IN  IF starts = {} THEN NoMatch
        ELSE LET i == MinOf(starts)
             IN  [found |-> TRUE, group |-> SubSeq(s, open(i), MinOf(closers(i)))]

\* re.search(r"\{.*\}", s, flags=re.DOTALL): group(0), the first "{"
\* through the last "}"
brace_search(s) ==
    LET opens == {i \in 1..Len(s) : s[i] = "{"}
        closes == {i \in 1..Len(s) : s[i] = "}" /\ opens # {} /\ i > MinOf(opens)}
    IN  IF closes = {} THEN NoMatch
        ELSE [found |-> TRUE, group |-> SubSeq(s, MinOf(opens), MaxOf(closes))]

\* re.sub(r",\s*" + close, close, s)
\* The characters of s that lie outside every match of ",\s*<close>": a
\* match starts at a comma and runs over whitespace to the closer, so matches
\* never overlap, and the closer is what replaces the match.
sub_keeps(s, close, i) ==
    ~ \E j \in 1..i :
          /\ s[j] = ","
          /\ \A k \in (j + 1)..i : s[k] \in Whitespace
          /\ SpanEnd(s, i + 1, Whitespace) <= Len(s)
          /\ s[SpanEnd(s, i + 1, Whitespace)] = close

sub_trailing_comma(s, close) ==
    CHOOSE r \in {[n \in 1..Len(kept) |-> s[kept[n]]] :
                    kept \in {SelectSeq([i \in 1..Len(s) |-> i],
                                        LAMBDA i : sub_keeps(s, close, i))}} :
        TRUE

Raised == [ok |-> FALSE, val |-> NoVal]
Returned(v) == [ok |-> TRUE, val |-> v]

\* 1) the markdown block, when there is one
try_fence(t) ==
    IF fence_search(t).found THEN json_loads(fence_search(t).group) ELSE Fail

\* 2) the first "{" through the last "}"
try_span(t) ==
    IF brace_search(t).found THEN json_loads(brace_search(t).group) ELSE Fail

\* 3) a text that starts with a quote is given its opening brace
try_prepend(t) ==
    IF lstrip(t) # <<>> /\ lstrip(t)[1] = DQ
    THEN json_loads(<<"{">> \o lstrip(t))
    ELSE Fail

\* 4) the whole text, trailing commas removed
try_cleanup(t) ==
    json_loads(sub_trailing_comma(sub_trailing_comma(t, "}"), "]"))

\* The first strategy that parsed wins; the ValueError when none did.
FirstOk(tries) ==
    IF \E i \in 1..Len(tries) : tries[i].ok
    THEN Returned(tries[MinOf({i \in 1..Len(tries) : tries[i].ok})].val)
    ELSE Raised

\* The strategies in order, on the stripped text.
extract_stripped(t) ==
    FirstOk(<<try_fence(t), try_span(t), try_prepend(t), try_cleanup(t)>>)

\* _extract_json_obj(text): [ok |-> FALSE] is the ValueError.
extract_json_obj(txt) ==
    IF strip(txt) = <<>> THEN Raised ELSE extract_stripped(strip(txt))

(***************************************************************************)
(* The documents chunk_text is run on: up to MaxLines raw lines of         *)
(* LinePool joined by newlines, under every size bound 1..MaxChars, the    *)
(* documents of ExtraDocs under the default size bound, and                *)
(* RepeatedSplitDoc under every size bound 1..MaxChars.                    *)
(***************************************************************************)
MaxLines == 3
MaxChars == 6

LinePool ==
    { <<>>,
      <<"a", "b">>,
      <<" ", "c", " ">>,
      <<"a", ".", " ", "b">>,
      <<"1", " ", "x">>,
      <<"1", ".", " ", "T">>,
      <<"A", "B", "C", "D", "E">> }

Docs ==
    UNION { { join(<<NL>>, ls) : ls \in [1..n -> LinePool] } : n \in 1..MaxLines }

ExampleDoc ==
    <<"1", ".", " ", "T", "e", "r", "m", "\n", "T", "h", "i", "s", " ",
      "a", "g", "r", "e", "e", "m", "e", "n", "t", " ", "b", "e", "g", "i",
      "n", "s", " ", "J", "a", "n", " ", "1", ".", "\n", "\n", "L", "I",
      "A", "B", "I", "L", "I", "T", "Y", "\n", "L", "i", "a", "b", "i",
      "l", "i", "t", "y", " ", "c", "a", "p", "p", "e", "d", " ", "a", "t",
      " ", "f", "e", "e", "s", " ", "p", "a", "i", "d", ".">>

ExampleSeg1 ==
    [section |-> <<"1", ".", " ", "T", "e", "r", "m">>,
     text |->
        <<"1", ".", " ", "T", "e", "r", "m", "\n", "T", "h", "i", "s", " ",
          "a", "g", "r", "e", "e", "m", "e", "n", "t", " ", "b", "e", "g",
          "i", "n", "s", " ", "J", "a", "n", " ", "1", ".">>]

ExampleSeg2 ==
    [section |-> <<"L", "I", "A", "B", "I", "L", "I", "T", "Y">>,
     text |->
        <<"L", "I", "A", "B", "I", "L", "I", "T", "Y", "\n", "L", "i", "a",
          "b", "i", "l", "i", "t", "y", " ", "c", "a", "p", "p", "e", "d",
          " ", "a", "t", " ", "f", "e", "e", "s", " ", "p", "a", "i", "d",
          ".">>]

\* An all-caps line one character longer than a heading may be.
LongCapsLine == [i \in 1..(HeadingMaxLen + 1) |-> "A"]
LongCapsDoc == <<"a", "b", NL>> \o LongCapsLine \o <<NL, "c", "d">>

\* Two lines separated by a carriage return and a newline.
CRLFDoc == <<"a", "b", "\r", NL, "c", "d">>

ExtraDocs == {ExampleDoc, LongCapsDoc, CRLFDoc}

\* Five short lines that open with a sentence end, then a heading and a
\* long line: under a size bound of 5 the first segment is split twice by
\* the post-pass and the second twice by the size loop.
RepeatedSplitDoc ==
    <<"!", NL, "b", NL, "c", NL, "d", NL, "e", NL, "1", " ", "x", NL,
      "a", "b", "c", "d", "e", "f", "g", "h", "i", "j", "k">>

(***************************************************************************)
(* The segmenter's specification.                                          *)
(***************************************************************************)
ExtractIdle ==
    /\ raw = <<>>
    /\ embedded = <<>>
    /\ ext = Raised
    /\ epc = "idle"

ReviewIdle ==
    /\ attempt_number = 0
    /\ raw_output = <<>>
    /\ calls = <<>>
    /\ outcome = [kind |-> "none", exc |-> "none", text |-> <<>>]
    /\ rpc = "idle"

RetrievalIdle ==
    /\ r_chunks = <<>>
    /\ top_k_per_query = 0
    /\ r_max_chars = 0
    /\ chunk_embs = <<>>
    /\ qi = 1
    /\ scores = <<>>
    /\ top_indices = <<>>
    /\ evidence_indices = {}
    /\ bundle = <<>>
    /\ r_out = <<>>
    /\ rtpc = "idle"

IndexIdle ==
    /\ collection = {}
    /\ indexed = <<>>

BodyIdle ==
    /\ resp_text = <<>>
    /\ fragments = <<>>
    /\ parsed = [exc |-> "none", text |-> <<>>]
    /\ bpc = "idle"

\* The components that none of chunk_text, _extract_json_obj and
\* run_risk_review touches.
OthersIdle == RetrievalIdle /\ IndexIdle /\ BodyIdle

ChunkIdle ==
    /\ text = <<>>
    /\ max_chars = DEFAULT_MAX_CHARS
    /\ lines = <<>>
    /\ li = 1
    /\ current_lines = <<>>
    /\ current_title = None
    /\ chunks = <<>>
    /\ ci = 1
    /\ result = <<>>
    /\ cpc = "idle"
    /\ nsplit = 0

InitChunk ==
    /\ \/ text \in Docs /\ max_chars \in 1..MaxChars
       \/ text \in ExtraDocs /\ max_chars = DEFAULT_MAX_CHARS
       \/ text = RepeatedSplitDoc /\ max_chars \in 1..MaxChars
    /\ lines = <<>>
    /\ li = 1
    /\ current_lines = <<>>
    /\ current_title = None
    /\ chunks = <<>>
    /\ ci = 1
    /\ result = <<>>
    /\ cpc = "start"
    /\ nsplit = 0
    /\ ExtractIdle
    /\ ReviewIdle
    /\ OthersIdle

NextChunk ==
    \/ ChunkStart
    \/ ScanLine
    \/ SizeSplit
    \/ SizeDone
    \/ EndFlush
    \/ PostPass
    \/ ChunkReturn

SpecChunk == InitChunk /\ [][NextChunk]_vars

(***************************************************************************)
(* The texts _extract_json_obj is run on: every object of ObjectPool       *)
(* between every prose of ProseBefore and of ProseAfter, and the texts of  *)
(* BarePool, which embed no object.                                        *)
(***************************************************************************)
\* Prose before the object; some of it holds braces or opens a fence.
ProseBefore ==
    {
      <<>>,
      <<"H", "e", "r", "e", ":", " ">>,
      <<"{", "x", "}", " ">>,
      <<"{", "\"", "b", "\"", ":", " ">>,
      <<"s", "e", "e", " ", "{">>,
      <<"H", "e", "r", "e", " ", "y", "o", "u", " ", "g", "o", ":", "\n",
        BT, BT, BT, "j", "s", "o", "n", "\n">>
    }

\* Prose after the object.
ProseAfter ==
    {
      <<>>,
      <<" ", "o", "k">>,
      <<" ", "}">>,
      <<"}">>,
      <<" ", "{", "y", "}">>,
      <<"\n", BT, BT, BT>>
    }

\* Well-formed JSON objects.
ObjectPool ==
    {
      <<"{", "}">>,
      <<"{", "\"", "a", "\"", ":", "1", "}">>,
      <<"{", "\"", "a", "\"", ":", " ", "{", "\"", "b", "\"", ":", " ",
        "[", "1", ",", " ", "\"", "x", "\"", "]", "}", "}">>,
      <<"{", "\"", "r", "i", "s", "k", "_", "s", "c", "o", "r", "e", "\"",
        ":", " ", "7", ",", " ", "\"", "r", "e", "d", "_", "f", "l", "a",
        "g", "s", "\"", ":", " ", "[", "]", "}">>
    }

\* Texts that embed no well-formed object: bare values, defective objects, prose.
BarePool ==
    {
      <<"7">>,
      <<"\"", "a", "b", "c", "\"">>,
      <<"n", "u", "l", "l">>,
      <<"t", "r", "u", "e">>,
      <<"[", "1", ",", "2", "]">>,
      <<"[", "]">>,
      <<"{", "\"", "a", "\"", ":", " ", "1", ",", " ", "\"", "b", "\"",
        ":", " ", "2", ",", "}">>,
      <<"\"", "a", "\"", ":", "1", "}">>,
      <<>>,
      <<" ", " ", " ">>,
      <<"n", "o", " ", "j", "s", "o", "n", " ", "h", "e", "r", "e">>,
      <<"[", "{", "\"", "a", "\"", ":", "1", "}", ",", "]">>,
      <<"N", "a", "N">>,
      <<"-", "1", ".", "5", "e", "3">>,
      <<"{", "\"", "a", "\"", ":", "1">>,
      <<"{", "\"", "a", "\"", " ", "1", "}">>,
      <<"{", "\"", "a", "\"", ":", "1", ",", "\"", "a", "\"", ":", "2",
        "}">>,
      <<"{", "\"", "a", "\"", ":", "[", "1", ",", "]", ",", "}">>,
      <<"\"", "a", "\\", "\"", "b", "\"", ":", " ", "1", "}">>,
      <<"[", "1", " ", ",", " ", "]">>
    }

\* obj = _extract_json_obj(raw)
Extract ==
    /\ epc = "start"
    /\ ext' = extract_json_obj(raw)
    /\ epc' = "extracted"
    /\ UNCHANGED <<raw, embedded>>
    /\ UNCHANGED <<chunkVars, reviewVars, retrievalVars, indexVars, bodyVars>>

\* app.py, the risk report: the ValueError is shown as invalid JSON;
\* otherwise risk_obj.get(...) is called on whatever was returned.
Render ==
    /\ epc = "extracted"
    /\ epc' = IF ~ext.ok THEN "invalid_json_shown"
              ELSE IF ext.val.t = "obj" THEN "rendered"
              ELSE "attribute_error"
    /\ UNCHANGED <<raw, embedded, ext>>
    /\ UNCHANGED <<chunkVars, reviewVars, retrievalVars, indexVars, bodyVars>>

InitExtract ==
    /\ \/ \E a \in ProseBefore, o \in ObjectPool, b \in ProseAfter :
             raw = a \o o \o b /\ embedded = o
       \/ raw \in BarePool /\ embedded = <<>>
    /\ ext = Raised
    /\ epc = "start"
    /\ ChunkIdle
    /\ ReviewIdle
    /\ OthersIdle

NextExtract ==
    \/ Extract
    \/ Render

SpecExtract == InitExtract /\ [][NextExtract]_vars

(***************************************************************************)
(* core/agents.py: _parse_ollama_response_body and _ollama_generate        *)
(***************************************************************************)
RESPONSE == <<"r", "e", "s", "p", "o", "n", "s", "e">>

\* isinstance(data, dict) and "response" in data
HasResponse(v) == v.t = "obj" /\ \E i \in 1..Len(v.m) : v.m[i].k = RESPONSE

\* bool(v) is False
Falsy(v) ==
    \/ v.t \in {"null", "false"}
    \/ v.t = "str" /\ v.s = <<>>
    \/ v.t \in {"obj", "arr"} /\ v.m = <<>>
    \/ v.t = "num" /\ \A i \in 1..(SpanEnd(v.s, 1, Digit \cup {"-", "."}) - 1) :
                         v.s[i] \notin (Digit \ {"0"})

\* data.get("response") or "": the empty string for a falsy value
ResponseOrEmpty(v) ==
    LET r == v.m[CHOOSE i \in 1..Len(v.m) : v.m[i].k = RESPONSE].v
    IN  IF Falsy(r) THEN MkVal("str", <<>>, <<>>) ELSE r

\* The one element of a singleton set: a value computed once and named.
The(S) == CHOOSE x \in S : TRUE

\* One pass of the NDJSON loop over the parsed line d: what it appends.
line_response(d) ==
    IF d.ok /\ HasResponse(d.val) THEN <<ResponseOrEmpty(d.val)>> ELSE <<>>

\* One pass of the NDJSON loop over the stripped line l.
line_responses(l) ==
    IF l = <<>> THEN <<>> ELSE The({line_response(d) : d \in {json_loads(l)}})

\* The NDJSON loop: the response of every line that is an envelope.
RECURSIVE ndjson_responses(_)
ndjson_responses(ls) ==
    IF ls = <<>> THEN <<>>
    ELSE The({line_responses(l) : l \in {strip(ls[1])}})
            \o ndjson_responses(Tail(ls))

RECURSIVE join_values(_, _)
join_values(sep, vs) ==
    IF vs = <<>> THEN <<>>
    ELSE IF Len(vs) = 1 THEN vs[1].s
    ELSE vs[1].s \o sep \o join_values(sep, Tail(vs))

Text(t) == [exc |-> "none", text |-> t]
Exc(e) == [exc |-> e, text |-> <<>>]

\* (data.get("response") or "").strip() on the parsed envelope d
envelope_text(d) ==
    IF ResponseOrEmpty(d.val).t = "str"
    THEN Text(strip(ResponseOrEmpty(d.val).s))
    ELSE Exc("AttributeError")

\* "\n".join(out).strip() if out, else the text itself
lines_text(out, t) ==
    IF out = <<>> THEN Text(t)
    ELSE IF \A i \in 1..Len(out) : out[i].t = "str"
    THEN Text(strip(join_values(<<NL>>, out)))
    ELSE Exc("TypeError")

\* The NDJSON form of the stripped body t.
parse_lines(t) ==
    The({lines_text(out, t) : out \in {ndjson_responses(splitlines(t))}})

\* The single-envelope form on the parsed text d, else the NDJSON form.
parse_envelope(t, d) ==
    IF d.ok /\ HasResponse(d.val) THEN envelope_text(d) ELSE parse_lines(t)

\* The body after (text or "").strip()
parse_stripped_body(t) ==
    IF t = <<>> THEN Text(<<>>)
    ELSE The({parse_envelope(t, d) : d \in {json_loads(t)}})

\* _parse_ollama_response_body(text): the model output, or the exception
\* it raises on a response that is not a string.
parse_ollama_response_body(body) ==
    The({parse_stripped_body(t) : t \in {strip(body)}})

\* What requests.post and raise_for_status do on a call.
Faults == {"ConnectionError", "HTTPError404", "HTTPError500", "ReadTimeout"}

\* _ollama_generate(...): the text it returns or the exception it raises,
\* given the collaborator's reply.  ConnectionError and HTTPError become
\* RuntimeError; a read timeout is not caught.
ollama_generate(reply) ==
    IF reply.kind = "body" THEN parse_ollama_response_body(reply.body)
    ELSE IF reply.kind = "ReadTimeout" THEN Exc("ReadTimeout")
    ELSE Exc("RuntimeError")

(***************************************************************************)
(* core/agents.py: run_risk_review under                                   *)
(* @retry(stop=stop_after_attempt(3), wait=wait_exponential(...),          *)
(*        retry=retry_if_exception_type(ValueError))                       *)
(***************************************************************************)
MaxAttempts == 3

\* A decorator that retries on any exception.
retry_decision_any_exception(exc, n) ==
    IF n >= MaxAttempts THEN "retry_error" ELSE "retry"

\* A decorator that allows one attempt more.
retry_decision_one_more(exc, n) ==
    IF exc # "ValueError" THEN "reraise"
    ELSE IF n > MaxAttempts THEN "retry_error"
    ELSE "retry"

\* A decorator that stops one attempt early.
retry_decision_one_less(exc, n) ==
    IF exc # "ValueError" THEN "reraise"
    ELSE IF n + 1 >= MaxAttempts THEN "retry_error"
    ELSE "retry"

\* The decorator, after attempt n raised exc: the exception is re-raised
\* unless it is a ValueError; a ValueError is retried until attempt 3,
\* after which RetryError is raised.
retry_decision(exc, n) ==
    IF exc # "ValueError" THEN "reraise"
    ELSE IF n >= MaxAttempts THEN "retry_error"
    ELSE "retry"

\* An envelope whose response is a risk report.
BodyGood ==
    <<"{", "\"", "r", "e", "s", "p", "o", "n", "s", "e", "\"", ":", " ",
      "\"", "{", "\\", "\"", "r", "i", "s", "k", "_", "s", "c", "o", "r",
      "e", "\\", "\"", ":", " ", "7", ",", " ", "\\", "\"", "r", "e", "d",
      "_", "f", "l", "a", "g", "s", "\\", "\"", ":", " ", "[", "]", "}",
      "\"", ",", " ", "\"", "d", "o", "n", "e", "\"", ":", " ", "t", "r",
      "u", "e", "}">>

\* An envelope whose response is prose.
BodyProse ==
    <<"{", "\"", "r", "e", "s", "p", "o", "n", "s", "e", "\"", ":", " ",
      "\"", "S", "o", "r", "r", "y", ",", " ", "n", "o", " ", "J", "S",
      "O", "N", ".", "\"", "}">>

\* An envelope whose response is a bare number.
BodyNumber ==
    <<"{", "\"", "r", "e", "s", "p", "o", "n", "s", "e", "\"", ":", " ",
      "\"", "7", "\"", "}">>

\* Raw model output with no envelope.
BodyRawProse ==
    <<"I", " ", "c", "a", "n", "n", "o", "t", " ", "{", "h", "e", "l", "p",
      "}", ".">>

\* Two streamed envelopes, one per line.
BodyStream ==
    <<"{", "\"", "r", "e", "s", "p", "o", "n", "s", "e", "\"", ":", " ",
      "\"", "{", "\\", "\"", "a", "\\", "\"", "\"", "}", "\n", "{", "\"",
      "r", "e", "s", "p", "o", "n", "s", "e", "\"", ":", " ", "\"", ":",
      " ", "1", "}", "\"", "}">>

\* An envelope whose response is not a string.
BodyNotText ==
    <<"{", "\"", "r", "e", "s", "p", "o", "n", "s", "e", "\"", ":", " ",
      "5", "}">>

\* Raw model output longer than the preview of the ValueError message.
BodyLongProse ==
    <<"I", " ", "a", "m", " ", "u", "n", "a", "b", "l", "e", " ", "t", "o",
      " ", "p", "r", "o", "d", "u", "c", "e", " ", "t", "h", "e", " ", "r",
      "e", "q", "u", "e", "s", "t", "e", "d", " ", "r", "e", "p", "o", "r",
      "t", " ", "b", "e", "c", "a", "u", "s", "e", " ", "t", "h", "e", " ",
      "s", "u", "p", "p", "l", "i", "e", "d", " ", "c", "l", "a", "u", "s",
      "e", "s", " ", "a", "r", "e", " ", "i", "n", "c", "o", "m", "p", "l",
      "e", "t", "e", ";", " ", "p", "l", "e", "a", "s", "e", " ", "u", "p",
      "l", "o", "a", "d", " ", "t", "h", "e", " ", "w", "h", "o", "l", "e",
      " ", "a", "g", "r", "e", "e", "m", "e", "n", "t", ".">>

BodyPool ==
    {BodyGood, BodyProse, BodyNumber, BodyRawProse, BodyStream, BodyNotText,
     BodyLongProse}

\* The collaborator's replies to a generation call.
Replies ==
    {[kind |-> "body", body |-> b] : b \in BodyPool}
        \cup {[kind |-> f, body |-> <<>>] : f \in Faults}

Outcome(kind, exc, t) == [kind |-> kind, exc |-> exc, text |-> t]

\* _extract_json_obj(text) returns rather than raising ValueError.
accepted(t) == extract_json_obj(t).ok

\* The record of one generation call: g is what _ollama_generate returned
\* or raised, ok whether _extract_json_obj accepted its text.
Call(reply, json_mode, g, ok) ==
    [cycle |-> attempt_number, json_mode |-> json_mode, reply |-> reply.kind,
     exc |-> g.exc, text |-> g.text, parsed |-> g.exc = "none" /\ ok]

\* text[:100] of the ValueError message.
PreviewChars == 100

\* The part of the text quoted by the message of the ValueError that
\* _extract_json_obj raises: f"Could not parse JSON from: {text[:100]}...",
\* text being the stripped text; the message for a blank text quotes none.
value_error_text(t) == Upto(strip(t), MinOf({PreviewChars, Len(strip(t))}))

\* An exception exc leaves run_risk_review and reaches the decorator; msg is
\* the text its message quotes.  When the attempts are used up the caller
\* receives a RetryError that holds this last exception.
Raise(exc, msg) ==
    /\ rpc' = IF retry_decision(exc, attempt_number) = "retry"
              THEN "json_attempt" ELSE "failed"
    /\ attempt_number' = IF retry_decision(exc, attempt_number) = "retry"
                         THEN attempt_number + 1 ELSE attempt_number
    /\ outcome' = IF retry_decision(exc, attempt_number) = "retry"
                  THEN outcome
                  ELSE IF retry_decision(exc, attempt_number) = "retry_error"
                  THEN Outcome("error", "RetryError", msg)
                  ELSE Outcome("error", exc, <<>>)

\* return raw_output
Return(t) ==
    /\ rpc' = "done"
    /\ outcome' = Outcome("returned", "none", t)
    /\ UNCHANGED attempt_number

\* Lines 186-191 once the call has answered g: the try block.
json_validate(reply, g, ok) ==
    /\ calls' = Append(calls, Call(reply, TRUE, g, ok))
    /\ IF g.exc # "none"
       THEN Raise(g.exc, <<>>) /\ UNCHANGED raw_output
       ELSE /\ raw_output' = g.text
            /\ IF ok
               THEN Return(g.text)
               ELSE /\ rpc' = "fallback_attempt"
                    /\ UNCHANGED <<attempt_number, outcome>>

\* An except block that returns the text without validating it.
fallback_unvalidated(reply, g, ok) ==
    /\ calls' = Append(calls, Call(reply, FALSE, g, ok))
    /\ IF g.exc # "none"
       THEN Raise(g.exc, <<>>) /\ UNCHANGED raw_output
       ELSE raw_output' = g.text /\ Return(g.text)

\* Lines 192-196 once the call has answered g: the except block, whose
\* ValueError reaches the decorator.
fallback_validate(reply, g, ok) ==
    /\ calls' = Append(calls, Call(reply, FALSE, g, ok))
    /\ IF g.exc # "none"
       THEN Raise(g.exc, <<>>) /\ UNCHANGED raw_output
       ELSE /\ raw_output' = g.text
            /\ IF ok THEN Return(g.text)
               ELSE Raise("ValueError", value_error_text(g.text))

\* The json-mode attempt of a cycle: _ollama_generate(..., json_mode=True)
\* and the validation of what it returned.
JsonAttempt ==
    /\ rpc = "json_attempt"
    /\ \E reply \in Replies :
          \E g \in {ollama_generate(reply)} :
             \E ok \in {accepted(g.text)} : json_validate(reply, g, ok)
    /\ UNCHANGED <<chunkVars, extractVars, retrievalVars, indexVars, bodyVars>>

\* The fallback attempt of a cycle: _ollama_generate(..., json_mode=False)
\* and the validation of what it returned.
FallbackAttempt ==
    /\ rpc = "fallback_attempt"
    /\ \E reply \in Replies :
          \E g \in {ollama_generate(reply)} :
             \E ok \in {accepted(g.text)} : fallback_validate(reply, g, ok)
    /\ UNCHANGED <<chunkVars, extractVars, retrievalVars, indexVars, bodyVars>>

InitReview ==
    /\ attempt_number = 1
    /\ raw_output = <<>>
    /\ calls = <<>>
    /\ outcome = Outcome("none", "none", <<>>)
    /\ rpc = "json_attempt"
    /\ ChunkIdle
    /\ ExtractIdle
    /\ OthersIdle

NextReview ==
    \/ JsonAttempt
    \/ FallbackAttempt

SpecReview == InitReview /\ [][NextReview]_vars

(***************************************************************************)
(* core/retrieval.py: retrieve_evidence_for_risk.  Indices are 1-based     *)
(* here, 0-based in the code.                                              *)
(***************************************************************************)
\* The eight topic queries, each by its first word.
RISK_QUERIES ==
    <<"limitation", "indemnity", "termination", "data", "payment",
      "warranties", "confidentiality", "insurance">>

\* "\n\n[... text truncated to fit model context ...]"
TRUNCATION_NOTICE ==
    <<"\n", "\n", "[", ".", ".", ".", " ", "t", "e", "x", "t", " ", "t",
      "r", "u", "n", "c", "a", "t", "e", "d", " ", "t", "o", " ", "f", "i",
      "t", " ", "m", "o", "d", "e", "l", " ", "c", "o", "n", "t", "e", "x",
      "t", " ", ".", ".", ".", "]">>

\* _dot(a, b): sum(x * y for x, y in zip(a, b))
RECURSIVE dot(_, _)
dot(a, b) ==
    IF a = <<>> \/ b = <<>> THEN 0
    ELSE a[1] * b[1] + dot(Tail(a), Tail(b))

\* An insertion that puts i before the indices of equal key.
RECURSIVE insert_before_equal(_, _, _)
insert_before_equal(i, sorted, key) ==
    IF sorted = <<>> THEN <<i>>
    ELSE IF key[sorted[1]] < key[i]
    THEN <<sorted[1]>> \o insert_before_equal(i, Tail(sorted), key)
    ELSE <<i>> \o sorted

\* One step of the stable sort: i goes after every index whose key is not
\* greater than its own.
RECURSIVE insert_stable(_, _, _)
insert_stable(i, sorted, key) ==
    IF sorted = <<>> THEN <<i>>
    ELSE IF key[sorted[1]] <= key[i]
    THEN <<sorted[1]>> \o insert_stable(i, Tail(sorted), key)
    ELSE <<i>> \o sorted

\* sorted(range(n), key=lambda i: key[i])
RECURSIVE sorted_range(_, _)
sorted_range(n, key) ==
    IF n = 0 THEN <<>>
    ELSE insert_stable(n, sorted_range(n - 1, key), key)

\* sorted(range(len(scores)), key=lambda i: -scores[i])[:top_k]
top_of(sc, top_k) ==
    Upto(sorted_range(Len(sc), [i \in 1..Len(sc) |-> 0 - sc[i]]),
         MinOf({top_k, Len(sc)}))

\* sorted(S) of a set of indices
RECURSIVE sorted_set(_)
sorted_set(S) ==
    IF S = {} THEN <<>> ELSE <<MinOf(S)>> \o sorted_set(S \ {MinOf(S)})

\* A cap that leaves max_chars - 1 characters before the notice.
cap_one_short(o, maxc) ==
    IF Len(o) > maxc THEN Upto(o, MaxOf({maxc - 1, 0})) \o TRUNCATION_NOTICE
    ELSE o

\* Lines 50-51: out[:max_chars] + notice when out is longer than max_chars
cap(o, maxc) ==
    IF Len(o) > maxc THEN Upto(o, maxc) \o TRUNCATION_NOTICE ELSE o

\* A bundle that lists the indices in descending order.
evidence_unsorted(cs, indices) ==
    join(<<NL, NL>>,
         [k \in 1..Len(indices) |-> cs[indices[Len(indices) + 1 - k]]])

\* Lines 48-49: the texts of the chunks at the indices, joined by "\n\n"
evidence_of(cs, indices) ==
    join(<<NL, NL>>, [k \in 1..Len(indices) |-> cs[indices[k]]])

MaxSegs == 3
MaxTopK == 3
MaxEvidenceChars == 4
\* The texts of the chunks.
SegPool == {<<"a", "b">>, <<"c">>}
\* The vectors embed_texts returns.
Vec == {<<0, 1>>, <<1, 0>>, <<1, 1>>}

\* Lines 35-39: no chunks, no evidence; else the chunk texts are embedded.
RetrieveStart ==
    /\ rtpc = "start"
    /\ IF r_chunks = <<>>
       THEN /\ r_out' = <<>>
            /\ rtpc' = "done"
            /\ UNCHANGED <<chunk_embs, evidence_indices, qi>>
       ELSE /\ chunk_embs' \in [1..Len(r_chunks) -> Vec]
            /\ evidence_indices' = {}
            /\ qi' = 1
            /\ rtpc' = "query"
            /\ UNCHANGED r_out
    /\ UNCHANGED <<r_chunks, top_k_per_query, r_max_chars, scores,
                   top_indices, bundle>>
    /\ UNCHANGED <<chunkVars, extractVars, reviewVars, indexVars, bodyVars>>

\* Lines 42-46: one iteration of "for query in RISK_QUERIES".
Query ==
    /\ rtpc = "query"
    /\ qi <= Len(RISK_QUERIES)
    /\ \E q_emb \in Vec :
          scores' = [i \in 1..Len(chunk_embs) |-> dot(q_emb, chunk_embs[i])]
    /\ top_indices' = top_of(scores', top_k_per_query)
    /\ evidence_indices' =
          evidence_indices \cup {top_indices'[k] : k \in 1..Len(top_indices')}
    /\ qi' = qi + 1
    /\ UNCHANGED <<r_chunks, top_k_per_query, r_max_chars, chunk_embs,
                   bundle, r_out, rtpc>>
    /\ UNCHANGED <<chunkVars, extractVars, reviewVars, indexVars, bodyVars>>

\* Lines 48-52: the bundle in document order, capped.
Assemble ==
    /\ rtpc = "query"
    /\ qi > Len(RISK_QUERIES)
    /\ bundle' = evidence_of(r_chunks, sorted_set(evidence_indices))
    /\ r_out' = cap(bundle', r_max_chars)
    /\ rtpc' = "done"
    /\ UNCHANGED <<r_chunks, top_k_per_query, r_max_chars, chunk_embs, qi,
                   scores, top_indices, evidence_indices>>
    /\ UNCHANGED <<chunkVars, extractVars, reviewVars, indexVars, bodyVars>>

InitRetrieve ==
    /\ r_chunks \in UNION {[1..n -> SegPool] : n \in 0..MaxSegs}
    /\ top_k_per_query \in 0..MaxTopK
    /\ r_max_chars \in 0..MaxEvidenceChars
    /\ chunk_embs = <<>>
    /\ qi = 1
    /\ scores = <<>>
    /\ top_indices = <<>>
    /\ evidence_indices = {}
    /\ bundle = <<>>
    /\ r_out = <<>>
    /\ rtpc = "start"
    /\ ChunkIdle
    /\ ExtractIdle
    /\ ReviewIdle
    /\ IndexIdle
    /\ BodyIdle

NextRetrieve ==
    \/ RetrieveStart
    \/ Query
    \/ Assemble

SpecRetrieve == InitRetrieve /\ [][NextRetrieve]_vars

(***************************************************************************)
(* core/vectorstore.py: upsert_chunks, as the "Index Contract" button of   *)
(* app.py calls it.  The collection is the set of its records, one per id. *)
(***************************************************************************)
PDF == <<".", "p", "d", "f">>

\* s.replace(w, ""): every occurrence of w removed, left to right
RECURSIVE remove_all(_, _)
remove_all(s, w) ==
    IF s = <<>> THEN <<>>
    ELSE IF MatchAt(s, 1, w) THEN remove_all(From(s, Len(w) + 1), w)
    ELSE <<s[1]>> \o remove_all(Tail(s), w)

\* str(i) of a small index
str_of(i) == <<Digit_of(i)>>

\* f"{contract_id}_{i}" for the i-th chunk, i counted from 0
id_of(contract_id, i) == contract_id \o <<"_">> \o str_of(i)

\* The ids, documents and metadatas upsert_chunks builds.
records_of(contract_id, vendor, cs) ==
    {[id |-> id_of(contract_id, k - 1),
      document |-> cs[k].text,
      contract_id |-> contract_id,
      vendor |-> vendor,
      section |-> cs[k].section] : k \in 1..Len(cs)}

\* collection.upsert: a record whose id exists is replaced, another added
upsert(coll, records) ==
    {r \in coll : \A n \in records : n.id # r.id} \cup records

\* upsert_chunks(collection, contract_id, vendor, chunks, embeddings)
upsert_chunks(coll, contract_id, vendor, cs) ==
    upsert(coll, records_of(contract_id, vendor, cs))

MaxIndexSegs == 2
\* The names of the uploaded files, the vendors and the chunks of a version.
UploadNames == {<<"a", ".", "p", "d", "f">>, <<"a", "_", "0", ".", "p", "d", "f">>}
Vendors == {<<"v">>, <<"w">>}
IndexChunkPool ==
    {[section |-> UNKNOWN, text |-> <<"a", "b">>],
     [section |-> <<"1", " ", "x">>, text |-> <<"1", " ", "x">>]}
ContractIds == {remove_all(n, PDF) : n \in UploadNames}

\* app.py lines 113-118: the "Index Contract" button on an uploaded file
\* whose text was chunked into cs.
IndexContract ==
    /\ \E name \in UploadNames, vendor \in Vendors :
          \E cs \in UNION {[1..n -> IndexChunkPool] : n \in 1..MaxIndexSegs} :
             /\ collection' =
                   upsert_chunks(collection, remove_all(name, PDF), vendor, cs)
             /\ indexed' =
                   [indexed EXCEPT ![remove_all(name, PDF)] =
                       [vendor |-> vendor, chunks |-> cs]]
    /\ UNCHANGED <<chunkVars, extractVars, reviewVars, retrievalVars, bodyVars>>

InitIndex ==
    /\ collection = {}
    /\ indexed = [c \in ContractIds |-> [vendor |-> <<>>, chunks |-> <<>>]]
    /\ ChunkIdle
    /\ ExtractIdle
    /\ ReviewIdle
    /\ RetrievalIdle
    /\ BodyIdle

NextIndex == IndexContract

SpecIndex == InitIndex /\ [][NextIndex]_vars

(***************************************************************************)
(* core/agents.py: _parse_ollama_response_body on the bodies the           *)
(* generation collaborator sends: envelopes, one per line, or raw text.    *)
(***************************************************************************)
\* The characters of r as they stand inside a JSON string.
RECURSIVE escape(_)
escape(r) ==
    IF r = <<>> THEN <<>>
    ELSE (IF r[1] = DQ THEN <<BS, DQ>>
          ELSE IF r[1] = BS THEN <<BS, BS>>
          ELSE IF r[1] = NL THEN <<BS, "n">>
          ELSE <<r[1]>>) \o escape(Tail(r))

\* {"response": "..."}: the envelope whose response field is r
Envelope(r) ==
    <<"{", DQ>> \o RESPONSE \o <<DQ, ":", " ", DQ>> \o escape(r) \o <<DQ, "}">>

MaxFragments == 3
\* The response fields of the envelopes.
FragmentPool ==
    {<<"H", "e", "l">>,
     <<"l", "o", ".">>,
     <<"{", "\"", "k", "\"">>,
     <<":", " ", "1", "}">>,
     <<"a", " ", "b", " ">>}
\* Bodies that are not envelopes.
RawBodyPool ==
    {<<"p", "l", "a", "i", "n", " ", "t", "e", "x", "t">>,
     <<"{", "\"", "d", "o", "n", "e", "\"", ":", " ", "t", "r", "u", "e", "}">>,
     <<"[", "1", ",", " ", "2", "]">>,
     <<"7">>,
     <<"x", "\n", "y">>}

\* The call of _parse_ollama_response_body(resp.text), line 116.
ParseBody ==
    /\ bpc = "start"
    /\ parsed' = parse_ollama_response_body(resp_text)
    /\ bpc' = "done"
    /\ UNCHANGED <<resp_text, fragments>>
    /\ UNCHANGED <<chunkVars, extractVars, reviewVars, retrievalVars, indexVars>>

InitBody ==
    /\ \/ /\ fragments \in UNION {[1..n -> FragmentPool] : n \in 1..MaxFragments}
          /\ resp_text =
                join(<<NL>>, [k \in 1..Len(fragments) |-> Envelope(fragments[k])])
       \/ /\ fragments = <<>>
          /\ resp_text \in RawBodyPool
    /\ parsed = [exc |-> "none", text |-> <<>>]
    /\ bpc = "start"
    /\ ChunkIdle
    /\ ExtractIdle
    /\ ReviewIdle
    /\ RetrievalIdle
    /\ IndexIdle

NextBody == ParseBody

SpecBody == InitBody /\ [][NextBody]_vars

(***************************************************************************)
(* Properties of the segmenter.                                            *)
(***************************************************************************)
IsBoundary(t, i) == t[i] \in SentenceEnd /\ t[i + 1] \in Whitespace

\* A text longer than maxc that holds no sentence boundary inside it.
SingleLongSentence(t, maxc) ==
    /\ Len(t) > maxc
    /\ \A i \in 1..(Len(t) - 1) : ~IsBoundary(t, i)

NonBlank(ln) == ln # <<>>
NonWhitespace(c) == c \notin Whitespace

\* The document's non-blank lines, stripped, in order.
NonBlankLines(doc) ==
    SelectSeq([i \in 1..Len(splitlines(doc)) |-> strip(splitlines(doc)[i])],
              NonBlank)

RECURSIVE LinesOf(_)
LinesOf(segs) ==
    IF segs = <<>> THEN <<>>
    ELSE splitlines(segs[1].text) \o LinesOf(Tail(segs))

RECURSIVE ConcatTexts(_)
ConcatTexts(segs) ==
    IF segs = <<>> THEN <<>> ELSE segs[1].text \o ConcatTexts(Tail(segs))

IsHeading(ln) == SECTION_RE_match(ln) /\ Len(ln) <= HeadingMaxLen

\* A non-blank document without heading lines, within the size bound.
PreChunked ==
    /\ strip(text) # <<>>
    /\ Len(text) <= max_chars
    /\ \A i \in 1..Len(NonBlankLines(text)) : ~IsHeading(NonBlankLines(text)[i])

\* The trimmed document's lines are separated by single "\n" characters:
\* no other line boundary, no blank line inside it and no line of it with
\* leading or trailing whitespace.
CleanLines(doc) ==
    /\ \A i \in 1..Len(strip(doc)) :
           strip(doc)[i] \in LineBreaks => strip(doc)[i] = NL
    /\ \A i \in 1..Len(splitlines(strip(doc))) :
           /\ splitlines(strip(doc))[i] # <<>>
           /\ strip(splitlines(strip(doc))[i]) = splitlines(strip(doc))[i]

\* C1: every segment chunk_text returns has len(text) <= max_chars, except
\* segments that consist of a single sentence longer than max_chars.
C1_SizeBound ==
    cpc = "done" =>
        \A i \in 1..Len(result) :
            \/ Len(result[i].text) <= max_chars
            \/ SingleLongSentence(result[i].text, max_chars)

\* C1 witness: a document with a line longer than max_chars that holds no
\* sentence boundary was split, and a returned segment fills the bound.
C1_Witness ==
    /\ cpc = "done"
    /\ nsplit > 0
    /\ \E i \in 1..Len(lines) : SingleLongSentence(lines[i], max_chars)
    /\ \E i \in 1..Len(result) : Len(result[i].text) = max_chars

\* C2: the "1. Term" / "LIABILITY" document under max_chars = 1800 returns
\* exactly the two segments labelled "1. Term" and "LIABILITY", each heading
\* line starting its segment.
C2_ExampleSegments ==
    (cpc = "done" /\ text = ExampleDoc /\ max_chars = DEFAULT_MAX_CHARS) =>
        result = <<ExampleSeg1, ExampleSeg2>>

\* C3 as stated: the segments' texts, in returned order, are the document's
\* non-blank lines in original order, none lost, duplicated or broken apart.
C3_LinesReproduced ==
    cpc = "done" => LinesOf(result) = NonBlankLines(text)

\* C3 amended: the segments' texts, in returned order, hold the document's
\* non-whitespace characters in original order, none lost or duplicated; and
\* when no size-triggered split occurred their lines are the document's
\* non-blank lines, stripped, in original order.
C3_CharsReproduced ==
    cpc = "done" =>
        /\ SelectSeq(ConcatTexts(result), NonWhitespace)
             = SelectSeq(text, NonWhitespace)
        /\ nsplit = 0 => LinesOf(result) = NonBlankLines(text)

\* C3 witness: a size-triggered split broke a line apart.
C3_Witness ==
    /\ cpc = "done"
    /\ nsplit > 0
    /\ Len(result) >= 2
    /\ LinesOf(result) # NonBlankLines(text)

\* C4 as stated: a non-blank document without heading lines and within
\* max_chars yields exactly one segment, equal to the trimmed input.
C4_OneSegmentTrimmedInput ==
    (cpc = "done" /\ PreChunked) =>
        /\ Len(result) = 1
        /\ result[1].text = strip(text)

\* C4 amended: such a document yields exactly one segment, whose text is the
\* document's non-blank lines, each trimmed, joined by single newlines; it
\* is the trimmed input when the input's lines are separated by single "\n"
\* characters, with no blank line and no line with leading or trailing
\* whitespace.
C4_OneSegmentOfLines ==
    (cpc = "done" /\ PreChunked) =>
        /\ Len(result) = 1
        /\ result[1].text = join(<<NL>>, NonBlankLines(text))
        /\ CleanLines(text) => result[1].text = strip(text)

\* C4 witness: a pre-chunked document of several lines, one of them blank
\* or padded, was segmented.
C4_Witness ==
    /\ cpc = "done"
    /\ PreChunked
    /\ Len(NonBlankLines(text)) >= 2
    /\ ~CleanLines(text)
    /\ Len(result) = 1

(***************************************************************************)
(* Properties of the extractor.                                            *)
(***************************************************************************)
Extracted == epc # "start" /\ epc # "idle"

\* C5: for a well-formed JSON object O and any prose P1, P2 around it,
\* braces in the prose included, _extract_json_obj(P1 + O + P2) succeeds
\* and returns an object deep-equal to O.
C5_RoundTrip ==
    (Extracted /\ embedded # <<>>)
        => (ext.ok /\ DeepEq(ext.val, json_loads(embedded).val))

\* C6: _extract_json_obj returns a mapping or raises; it never returns a
\* value that is not an object.
C6_ObjectOrRaise == (Extracted /\ ext.ok) => ext.val.t = "obj"

(***************************************************************************)
(* Properties of run_risk_review.                                          *)
(***************************************************************************)
Terminated == rpc \in {"done", "failed"}
LastCall == calls[Len(calls)]
CallsOfCycle(c) == {i \in 1..Len(calls) : calls[i].cycle = c}
\* The call answered with a text that the extractor rejected.
ExtractionFailed(i) == calls[i].exc = "none" /\ ~calls[i].parsed

\* C7: at most 3 cycles and at most 6 generation calls, at most 2 per
\* cycle; when every attempt of cycles 1 and 2 fails extraction and cycle 3
\* has an attempt that passes, the text of that attempt is returned.
C7_RetryBound ==
    /\ attempt_number \in 1..3
    /\ Len(calls) <= 6
    /\ \A i \in 1..Len(calls) : calls[i].cycle \in 1..3
    /\ \A c \in 1..3 : Cardinality(CallsOfCycle(c)) <= 2
    /\ \A i \in CallsOfCycle(3) :
          (calls[i].parsed /\ \A j \in 1..(i - 1) :
                                 calls[j].cycle < 3 => ExtractionFailed(j))
             => /\ Cardinality(CallsOfCycle(1)) = 2
                /\ Cardinality(CallsOfCycle(2)) = 2
                /\ i = Len(calls)
                /\ rpc = "done"
                /\ outcome.kind = "returned"
                /\ outcome.text = calls[i].text

\* Two cycles failed, the fallback attempt of the third one passed.
C7_Witness ==
    /\ rpc = "done"
    /\ Len(calls) = 6
    /\ LastCall.cycle = 3
    /\ \A j \in 1..5 : ExtractionFailed(j)
    /\ outcome.text = LastCall.text

\* C8: when every attempt fails extraction and no call raises, the run
\* never returns; until it ends it has made fewer than 6 calls and stands
\* at an attempt, which a reply always lets it take; it ends in a fatal
\* error after exactly 3 cycles, each a json-mode attempt followed by a
\* fallback attempt.
C8_Exhaustion ==
    (\A i \in 1..Len(calls) : ExtractionFailed(i))
        => /\ rpc # "done"
           /\ outcome.kind # "returned"
           /\ ~Terminated
                 => /\ Len(calls) < 6
                    /\ rpc \in {"json_attempt", "fallback_attempt"}
                    /\ Replies # {}
           /\ rpc = "failed"
                 => /\ outcome.kind = "error"
                    /\ outcome.exc = "RetryError"
                    /\ attempt_number = 3
                    /\ Len(calls) = 6
                    /\ \A i \in 1..6 :
                          /\ calls[i].cycle = (i + 1) \div 2
                          /\ calls[i].json_mode = (i % 2 = 1)

\* Six attempts failed extraction and the run ended in the fatal error.
C8_Witness ==
    /\ rpc = "failed"
    /\ outcome.exc = "RetryError"
    /\ Len(calls) = 6
    /\ \A i \in 1..6 : ExtractionFailed(i)

\* C9: a transport failure of any generation call, json-mode or fallback,
\* in any cycle, reaches the caller at once: the call is the last one, the
\* cycle counter does not move and the run has failed with that error.
C9_TransportFaultFatal ==
    \A i \in 1..Len(calls) :
        calls[i].reply \in Faults
            => /\ i = Len(calls)
               /\ rpc = "failed"
               /\ attempt_number = calls[i].cycle
               /\ outcome.kind = "error"
               /\ outcome.exc = calls[i].exc
               /\ outcome.exc \in {"RuntimeError", "ReadTimeout"}

\* A timeout of the fallback attempt of the second cycle.
C9_Witness ==
    /\ Len(calls) = 4
    /\ LastCall.reply = "ReadTimeout"
    /\ ~LastCall.json_mode
    /\ LastCall.cycle = 2
    /\ rpc = "failed"

\* C10: the first call of every cycle is in json mode; a call without json
\* mode comes only right after the json-mode attempt of the same cycle
\* failed extraction; the run is done only right after an attempt whose
\* text passed the extractor, and it returns that text.
C10_AttemptOrder ==
    /\ \A i \in 1..Len(calls) :
          (i = 1 \/ calls[i - 1].cycle # calls[i].cycle) => calls[i].json_mode
    /\ \A i \in 1..Len(calls) :
          ~calls[i].json_mode
             => /\ i > 1
                /\ calls[i - 1].cycle = calls[i].cycle
                /\ calls[i - 1].json_mode
                /\ ExtractionFailed(i - 1)
    /\ rpc = "done"
          => /\ calls # <<>>
             /\ LastCall.exc = "none"
             /\ LastCall.parsed
             /\ outcome.kind = "returned"
             /\ outcome.text = LastCall.text
             /\ raw_output = LastCall.text
             /\ accepted(outcome.text)

\* A run that is done after a fallback attempt of a later cycle.
C10_Witness ==
    /\ rpc = "done"
    /\ ~LastCall.json_mode
    /\ LastCall.cycle = 2
    /\ accepted(outcome.text)

(***************************************************************************)
(* Properties of retrieve_evidence_for_risk.                               *)
(***************************************************************************)
Selected == {top_indices[k] : k \in 1..Len(top_indices)}
\* Segment i is preferred to segment j: a higher score, or the same score
\* and a lower index.
Preferred(i, j) ==
    scores[i] > scores[j] \/ (scores[i] = scores[j] /\ i < j)

\* C11: the bundle before the cap lists every selected index once, in
\* ascending index order, the texts joined by a blank line; what a query
\* selects is in the index set.
C11_EvidenceDedupOrdered ==
    /\ Selected \subseteq evidence_indices
    /\ (rtpc = "done" /\ r_chunks # <<>>)
          => \E idx \in [1..Cardinality(evidence_indices) -> 1..Len(r_chunks)] :
                /\ \A a, b \in DOMAIN idx : a < b => idx[a] < idx[b]
                /\ {idx[a] : a \in DOMAIN idx} = evidence_indices
                /\ bundle = join(<<NL, NL>>,
                                 [a \in DOMAIN idx |-> r_chunks[idx[a]]])

\* Eight queries of two indices each selected all three segments.
C11_Witness ==
    /\ rtpc = "done"
    /\ top_k_per_query = 2
    /\ Cardinality(evidence_indices) = 3
    /\ r_chunks[1] # r_chunks[2]

\* C12: a bundle longer than max_chars is returned as its first max_chars
\* characters followed by the notice; a bundle within max_chars is
\* returned unchanged; the result is never longer than max_chars plus the
\* notice.
C12_Truncation ==
    rtpc = "done"
        => /\ Len(r_out) <= r_max_chars + Len(TRUNCATION_NOTICE)
           /\ IF Len(bundle) > r_max_chars
              THEN /\ Len(r_out) = r_max_chars + Len(TRUNCATION_NOTICE)
                   /\ \A i \in 1..r_max_chars : r_out[i] = bundle[i]
                   /\ \A j \in 1..Len(TRUNCATION_NOTICE) :
                         r_out[r_max_chars + j] = TRUNCATION_NOTICE[j]
              ELSE r_out = bundle

\* A bundle of two segments cut inside the first one.
C12_Witness ==
    /\ rtpc = "done"
    /\ r_max_chars = 1
    /\ Len(bundle) > 4
    /\ r_out[1] = "a"

\* C17: a query selects min(top_k_per_query, n) distinct segments, and
\* every selected segment is preferred to every segment left out: a
\* higher score, or an equal score and a lower index.
C17_TopKStable ==
    scores # <<>>
        => /\ Len(top_indices) = MinOf({top_k_per_query, Len(scores)})
           /\ Cardinality(Selected) = Len(top_indices)
           /\ Selected \subseteq 1..Len(scores)
           /\ \A i \in Selected : \A j \in (1..Len(scores)) \ Selected :
                 Preferred(i, j)

\* A tie across the cut: a selected and an unselected segment score alike.
C17_Witness ==
    /\ scores # <<>>
    /\ top_indices # <<>>
    /\ \E i \in Selected : \E j \in (1..Len(scores)) \ Selected :
          scores[i] = scores[j]

(***************************************************************************)
(* Properties of the vector index.                                         *)
(***************************************************************************)
\* C13: for each document identity the index holds exactly the segments
\* of the version indexed last.
C13_IndexHoldsLatest ==
    \A c \in ContractIds :
        {r \in collection : r.contract_id = c}
            = records_of(c, indexed[c].vendor, indexed[c].chunks)

(***************************************************************************)
(* Properties of _parse_ollama_response_body.                              *)
(***************************************************************************)
RECURSIVE ConcatAll(_)
ConcatAll(ts) == IF ts = <<>> THEN <<>> ELSE ts[1] \o ConcatAll(Tail(ts))

\* C14: a single envelope gives its response field, a sequence of
\* envelopes, one per line, the concatenation of their response fields in
\* order with nothing between them, any other body the raw text.
C14_BodyForms ==
    bpc = "done"
        => /\ parsed.exc = "none"
           /\ parsed.text = IF fragments = <<>> THEN resp_text
                            ELSE ConcatAll(fragments)

\* C15: when run_risk_review has used up its retry cycles, the error the
\* caller receives carries the complete raw text of the last generation
\* attempt.
C15_LastRawAttached ==
    (rpc = "failed" /\ outcome.exc = "RetryError")
        => /\ outcome.text = LastCall.text
           /\ outcome.text = raw_output

\* The title under which the in-stream size loop emits a piece:
\* current_title or "UNKNOWN".
InStreamLabel == IF current_title = None THEN UNKNOWN ELSE current_title

\* A step of the in-stream size loop that emitted a piece.
InStreamEmit ==
    /\ cpc = "size"
    /\ nsplit' = nsplit + 1
    /\ Len(chunks') = Len(chunks) + 1

\* The size loop is cutting the remainder of an earlier cut of the same
\* loop: its buffer is one text that is not the line just read.
LaterIteration ==
    /\ Len(current_lines) = 1
    /\ current_lines[1] # lines[li - 1]

\* A step of the post-pass that split the oversized segment chunks[ci].
PostPassSplit ==
    /\ cpc = "post"
    /\ ci <= Len(chunks)
    /\ ci' = ci + 1
    /\ Len(chunks[ci].text) > max_chars

\* The pieces that step appended to the result.
PostPieces == SubSeq(result', Len(result) + 1, Len(result'))

\* The post-pass labels the first piece with the segment's label and every
\* later piece with that label followed by " (cont.)".
PostPassLabels ==
    PostPassSplit
        => /\ PostPieces # <<>>
           /\ \A k \in 1..Len(PostPieces) :
                 PostPieces[k].section =
                     IF k = 1 THEN chunks[ci].section
                     ELSE chunks[ci].section \o CONT

\* C16 as stated: in both loops the first piece of a split carries the
\* parent's label and every later piece carries the label followed by
\* " (cont.)".
C16_ContinuationLabels ==
    [][/\ PostPassLabels
       /\ InStreamEmit
             => chunks'[Len(chunks')].section =
                    IF LaterIteration THEN InStreamLabel \o CONT
                    ELSE InStreamLabel]_vars

\* C16, amended: the post-pass labels the first piece with the segment's
\* label and every later piece with the label followed by " (cont.)"; the
\* in-stream size loop labels every piece it emits with the current title
\* (or "UNKNOWN"), unannotated, and keeps that title for the remainder.
C16_SplitLabels ==
    [][/\ PostPassLabels
       /\ InStreamEmit
             => /\ chunks'[Len(chunks')].section = InStreamLabel
                /\ current_lines' # <<>> => current_title' = current_title]_vars

\* The post-pass split one segment into three pieces and the in-stream
\* size loop cut the text under a heading into three.
C16_Witness ==
    /\ cpc = "done"
    /\ \E i \in 3..Len(result) :
          /\ result[i - 2].section = UNKNOWN
          /\ result[i - 1].section = UNKNOWN \o CONT
          /\ result[i].section = UNKNOWN \o CONT
    /\ \E j \in 3..Len(chunks) :
          /\ chunks[j].section # UNKNOWN
          /\ chunks[j - 1].section = chunks[j].section
          /\ chunks[j - 2].section = chunks[j].section

\* One iteration of the in-stream size loop makes progress: it emits a
\* non-empty piece and leaves one non-empty remainder shorter than the text
\* it cut, without leaving the loop by its break.
InStreamProgress ==
    (cpc = "size" /\ nsplit' = nsplit + 1)
        => /\ Len(chunks') = Len(chunks) + 1
           /\ chunks'[Len(chunks')].text # <<>>
           /\ Len(current_lines') = 1
           /\ current_lines'[1] # <<>>
           /\ Len(current_lines'[1]) < Len(join(<<NL>>, current_lines))
           /\ cpc' = "size"

\* Every iteration of the while loop of _split_large_chunk on part makes
\* progress: a non-empty piece, a non-empty and shorter remainder.
RECURSIVE split_loop_progress(_, _)
split_iteration_progress(part, maxc, ba) ==
    /\ ba[1] # <<>>
    /\ ba[2] # <<>>
    /\ Len(ba[2]) < Len(part)
    /\ split_loop_progress(ba[2], maxc)

split_loop_progress(part, maxc) ==
    Len(part) > maxc
        => split_iteration_progress(part, maxc, split_at_sentence(part, maxc))

\* The post-pass makes progress on every paragraph of the segment it
\* splits, and every piece it appends is non-empty.
PostPassProgress ==
    PostPassSplit
        => /\ \A k \in 1..Len(split_paragraphs(chunks[ci].text)) :
                 split_loop_progress(
                     strip(split_paragraphs(chunks[ci].text)[k]), max_chars)
           /\ PostPieces # <<>>
           /\ \A k \in 1..Len(PostPieces) : PostPieces[k].text # <<>>

\* No segment, flushed or returned, is empty.
NoEmptySegment ==
    /\ \A i \in 1..Len(chunks) : chunks[i].text # <<>>
    /\ \A i \in 1..Len(result) : result[i].text # <<>>

\* The steps chunk_text has left at most: the lines still to read, each
\* worth more than the longest text the size loop can hold, then the
\* length of the text the size loop holds, then the segments the post-pass
\* has still to visit.
Rank ==
    CASE cpc = "start" ->
            (Len(text) + 2) + (Len(text) + 2) * (Len(text) + 2)
      [] cpc \in {"scan", "size"} ->
            (Len(text) + 2) + (Len(lines) - li + 1) * (Len(text) + 2)
                + (IF cpc = "size"
                   THEN 1 + Len(join(<<NL>>, current_lines)) ELSE 0)
      [] cpc = "post" -> Len(chunks) - ci + 2
      [] OTHER -> 0

\* C18: under every size bound >= 1 chunk_text terminates: each iteration
\* of the in-stream size loop and of the post-pass split loop emits a
\* non-empty piece and leaves a strictly shorter, non-empty remainder, no
\* empty segment is ever emitted, and every step of the run lowers Rank, a
\* natural number, so no run is longer than the Rank of its first state.
C18_Terminates ==
    /\ [](NoEmptySegment /\ Rank \in Nat /\ (Rank = 0 <=> cpc = "done"))
    /\ [][InStreamProgress /\ PostPassProgress /\ Rank' < Rank]_vars

\* Under a size bound of 5 the size loop cut twice in a row, the post-pass
\* split a segment into three pieces, and the run returned.
C18_Witness ==
    /\ cpc = "done"
    /\ text = RepeatedSplitDoc
    /\ nsplit >= 3
    /\ Len(result) >= Len(chunks) + 2
    /\ Len(chunks) >= 4

====
